---- MODULE Spec2Model ----
(***************************************************************************)
(* cy-grep: the spec-selection plugin (src/plugin.js).                       *)
(*                                                                           *)
(* One invocation of cypressGrepPlugin(config) is modelled as a run of      *)
(* sequential steps over the function's locals.  The collaborators that     *)
(* live outside plugin.js (getSpecs, getTestNames, findEffectiveTestTags,   *)
(* resolveFilePatterns, parseGrep, shouldTestRun, getMentionedTags,         *)
(* minimatch, path.relative) are modelled by what they return.             *)
(*                                                                           *)
(* Text is a sequence of one-character strings; a path is a sequence of     *)
(* path segments.                                                            *)
(***************************************************************************)
EXTENDS Integers, Sequences, FiniteSets, TLC

\* Longest candidate list getSpecs may return.
MaxSpecs == 2
\* Longest list resolveFilePatterns may return.
MaxExtra == 2

(***************************************************************************)
(* JavaScript values, as far as the plugin tells them apart.                 *)
(***************************************************************************)
Undefined == [kind |-> "undefined"]
Bool(b) == [kind |-> "boolean", b |-> b]
Str(s) == [kind |-> "string", s |-> s]
\* A non-empty glob string, kept atomic: its characters are never inspected
\* by plugin.js, only handed to minimatch / resolveFilePatterns.
Glob(p) == [kind |-> "glob", p |-> p]
Array(a) == [kind |-> "array", items |-> a]
\* A path string, as its segments.
Path(p) == [kind |-> "path", segs |-> p]

\* ToBoolean: undefined, false and "" are falsy; arrays are truthy.
Truthy(v) ==
  CASE v.kind = "undefined" -> FALSE
    [] v.kind = "boolean" -> v.b
    [] v.kind = "string" -> v.s # <<>>
    [] OTHER -> TRUE

\* a || b
OrElse(a, b) == IF Truthy(a) THEN a ELSE b

\* v === true
IsStrictlyTrue(v) == v.kind = "boolean" /\ v.b

Range(s) == {s[k] : k \in 1..Len(s)}

(***************************************************************************)
(* Text helpers.                                                             *)
(***************************************************************************)
RECURSIVE SplitOn(_, _)
SplitOn(s, sep) ==
  IF \A k \in 1..Len(s) : s[k] # sep
    THEN <<s>>
    ELSE LET k == CHOOSE k \in 1..Len(s) : s[k] = sep /\ \A j \in 1..(k - 1) : s[j] # sep
         IN  <<SubSeq(s, 1, k - 1)>> \o SplitOn(SubSeq(s, k + 1, Len(s)), sep)

RECURSIVE Trim(_)
Trim(s) ==
  IF s = <<>> THEN s
  ELSE IF Head(s) = " " THEN Trim(Tail(s))
  ELSE IF s[Len(s)] = " " THEN Trim(SubSeq(s, 1, Len(s) - 1))
  ELSE s

\* hay.includes(needle) on text
TextIncludes(hay, needle) ==
  \E k \in 0..(Len(hay) - Len(needle)) : SubSeq(hay, k + 1, k + Len(needle)) = needle

(***************************************************************************)
(* utils.js (not part of the sources at hand): the tag literal normalizer,   *)
(* the grep expression parser, the match evaluator and the mentioned-tags    *)
(* extractor, after sections 4.1 - 4.4 of the specification.                 *)
(***************************************************************************)
\* 4.1: force a leading "@" when asked to.
normalizeTag(tag, forcePrefix) ==
  IF forcePrefix /\ (tag = <<>> \/ Head(tag) # "@") THEN <<"@">> \o tag ELSE tag

\* One alternative / literal: trimmed, a leading "-" marks it inverted.
parseLiteral(piece) ==
  LET t == Trim(piece)
  IN  IF t # <<>> /\ Head(t) = "-"
        THEN [text |-> Trim(Tail(t)), invert |-> TRUE]
        ELSE [text |-> t, invert |-> FALSE]

\* The literals of the pieces that are not blank.
parseLiterals(pieces) ==
  SelectSeq([k \in 1..Len(pieces) |-> parseLiteral(pieces[k])], LAMBDA a : a.text # <<>>)

parseTitleGrep(s) == parseLiterals(SplitOn(s, ","))

parseTagGroup(piece, forcePrefix) ==
  LET lits == parseLiterals(SplitOn(piece, "+"))
  IN  [k \in 1..Len(lits) |->
         [text |-> normalizeTag(lits[k].text, forcePrefix), invert |-> lits[k].invert]]

parseTagsGrep(s, forcePrefix) ==
  LET pieces == SplitOn(s, ",")
      groups == [k \in 1..Len(pieces) |-> parseTagGroup(pieces[k], forcePrefix)]
  IN  SelectSeq(groups, LAMBDA g : g # <<>>)

\* 4.2: parseGrep(grep, grepTags, grepPrefixAt); the first two are JS values.
parseGrep(grep, grepTags, grepPrefixAt) ==
  [title |-> IF Truthy(grep) THEN parseTitleGrep(grep.s) ELSE <<>>,
   hasTitle |-> Truthy(grep),
   tags |-> IF Truthy(grepTags) THEN parseTagsGrep(grepTags.s, Truthy(grepPrefixAt)) ELSE <<>>,
   grepUntagged |-> FALSE]

\* 4.4: the flat set of tag literals an expression names.
tagLiterals(groups) ==
  {l.text : l \in UNION {Range(groups[g]) : g \in 1..Len(groups)}}

getMentionedTags(grepTags, grepPrefixAt) ==
  IF Truthy(grepTags) THEN tagLiterals(parseTagsGrep(grepTags.s, Truthy(grepPrefixAt))) ELSE {}

shouldTestRunTitle(titleFilter, title) ==
  LET positive == {k \in 1..Len(titleFilter) : ~titleFilter[k].invert}
      negative == {k \in 1..Len(titleFilter) : titleFilter[k].invert}
  IN  /\ \A k \in negative : ~TextIncludes(title, titleFilter[k].text)
      /\ positive = {} \/ \E k \in positive : TextIncludes(title, titleFilter[k].text)

tagGroupSatisfied(group, effectiveTags) ==
  \A k \in 1..Len(group) :
    IF group[k].invert THEN group[k].text \notin effectiveTags
                       ELSE group[k].text \in effectiveTags

shouldTestRunTags(parsed, effectiveTags) ==
  \/ parsed.tags = <<>>
  \/ effectiveTags = {} /\ parsed.grepUntagged
  \/ \E g \in 1..Len(parsed.tags) : tagGroupSatisfied(parsed.tags[g], effectiveTags)

shouldTestRunRequiredTags(parsed, requiredTags) ==
  requiredTags = {} \/ requiredTags \cap tagLiterals(parsed.tags) # {}

\* 4.3: shouldTestRun(parsedGrep, title, effectiveTags, invert, requiredTags).
\* title is a JS value (Undefined when not given); omitted tag arguments are {}.
shouldTestRun(parsed, title, effectiveTags, invert, requiredTags) ==
  LET r == /\ (parsed.hasTitle /\ title.kind = "string") => shouldTestRunTitle(parsed.title, title.s)
           /\ shouldTestRunTags(parsed, effectiveTags)
           /\ shouldTestRunRequiredTags(parsed, requiredTags)
  IN  IF invert THEN ~r ELSE r

(***************************************************************************)
(* The project on disk: six spec files and what the extraction libraries     *)
(* (find-test-names) make of their text.                                     *)
(***************************************************************************)
tagSmoke == <<"@", "s">>
tagSlow == <<"@", "w">>
tagNightly == <<"@", "n">>

login == <<"cypress", "integration", "login.js">>
checkout == <<"cypress", "integration", "shop", "checkout.js">>
mixed == <<"cypress", "integration", "mixed.js">>
nightly == <<"cypress", "integration", "nightly.js">>
broken == <<"cypress", "integration", "broken.js">>
empty == <<"cypress", "extra", "empty.js">>

\* Every spec file of the project; getSpecs returns some of them.
Files == {login, checkout, mixed, nightly, broken, empty}
\* The files an extra-specs pattern may resolve to.
ExtraFiles == {checkout, empty}

Test(title, effectiveTags, requiredTags) ==
  [title |-> title, effectiveTags |-> effectiveTags, requiredTags |-> requiredTags]

\* fs.readFileSync(specFile): the text, as the parser of find-test-names sees it
\* (parses = FALSE: the parser throws on it).
readFileSync(specFile) ==
  CASE specFile = login ->
         [parses |-> TRUE, tests |-> <<Test(<<"a", "b">>, {tagSmoke}, {})>>]
    [] specFile = checkout ->
         [parses |-> TRUE, tests |-> <<Test(<<"c", "d">>, {tagSlow}, {})>>]
    [] specFile = mixed ->
         [parses |-> TRUE, tests |-> <<Test(<<"a", "e">>, {}, {}),
                                       Test(<<"c", "f">>, {tagSlow, tagNightly}, {tagNightly})>>]
    [] specFile = nightly ->
         [parses |-> TRUE, tests |-> <<Test(<<"a", "g">>, {tagNightly, tagSmoke}, {tagNightly}),
                                       Test(<<"c", "h">>, {}, {tagNightly})>>]
    [] specFile = broken ->
         [parses |-> FALSE, tests |-> <<>>]
    [] OTHER ->
         [parses |-> TRUE, tests |-> <<>>]

\* getTestNames(text, true).fullTestNames, or a throw.
getTestNames(text) ==
  IF text.parses
    THEN [threw |-> FALSE, fullTestNames |-> [k \in 1..Len(text.tests) |-> text.tests[k].title]]
    ELSE [threw |-> TRUE, fullTestNames |-> <<>>]

\* findEffectiveTestTags(text): per test (in key order) its effective and
\* required tags, or a throw.
findEffectiveTestTags(text) ==
  IF text.parses
    THEN [threw |-> FALSE, testTags |-> text.tests]
    ELSE [threw |-> TRUE, testTags |-> <<>>]

\* minimatch(specFilename, specPattern, {dot, matchBase}) for a pattern without
\* a slash or a wildcard: with matchBase it is compared with the basename.
minimatch(specFilename, specPattern) ==
  specFilename[Len(specFilename)] = specPattern.p

\* path.relative(from, to) on normalised paths.
RECURSIVE commonPrefix(_, _)
commonPrefix(a, b) ==
  IF a # <<>> /\ b # <<>> /\ Head(a) = Head(b) THEN 1 + commonPrefix(Tail(a), Tail(b)) ELSE 0

pathRelative(from, to) ==
  LET c == commonPrefix(from, to)
  IN  [k \in 1..(Len(from) - c) |-> ".."] \o SubSeq(to, c + 1, Len(to))

(***************************************************************************)
(* The inputs of one invocation.                                             *)
(***************************************************************************)
SeqsUpTo(S, n) == UNION {[1..k -> S] : k \in 0..n}
NoDuplicates(s) == \A a, b \in 1..Len(s) : a # b => s[a] # s[b]

\* What getSpecs may return: the project's files, none twice.
CandidateLists == {s \in SeqsUpTo(Files, MaxSpecs) : NoDuplicates(s)}
\* What resolveFilePatterns may return (a pattern list may name a file twice).
ExtraLists == SeqsUpTo(ExtraFiles, MaxExtra)

GrepChoices ==
  {Undefined, Str(<<>>), Str(<<"a">>), Str(<<"-", "a", ",", " ", "c">>)}

TagChoices ==
  {[grepTags |-> Undefined, grep_tags |-> Undefined, grepPrefixAt |-> Undefined, grep_prefix_at |-> Undefined],
   [grepTags |-> Str(tagSmoke), grep_tags |-> Undefined, grepPrefixAt |-> Undefined, grep_prefix_at |-> Undefined],
   [grepTags |-> Undefined, grep_tags |-> Str(<<"@", "w", ",", " ", "@", "n">>), grepPrefixAt |-> Bool(FALSE), grep_prefix_at |-> Undefined],
   [grepTags |-> Str(<<"n">>), grep_tags |-> Str(tagSmoke), grepPrefixAt |-> Undefined, grep_prefix_at |-> Bool(TRUE)],
   [grepTags |-> Str(<<"-", "@", "s", "+", "@", "w">>), grep_tags |-> Undefined, grepPrefixAt |-> Bool(TRUE), grep_prefix_at |-> Undefined]}

PreFilterChoices ==
  {[grepSpec |-> Undefined, grepSpecs |-> Undefined],
   [grepSpec |-> Glob("login.js"), grepSpecs |-> Glob("mixed.js")],
   [grepSpec |-> Undefined, grepSpecs |-> Glob("mixed.js")]}

FilterSpecsChoices == {Undefined, Bool(TRUE), Bool(FALSE), Str(<<"t", "r", "u", "e">>)}

ExtraPatternChoices == {Undefined, Glob("cypress/**/{checkout,empty}.js")}

Envs ==
  {[kind |-> "object",
    grep |-> g,
    grepTags |-> t.grepTags, grep_tags |-> t.grep_tags,
    grepPrefixAt |-> t.grepPrefixAt, grep_prefix_at |-> t.grep_prefix_at,
    grepFilterSpecs |-> f,
    grepSpec |-> p.grepSpec, grepSpecs |-> p.grepSpecs,
    grepExtraSpecs |-> x] :
     g \in GrepChoices, t \in TagChoices, f \in FilterSpecsChoices,
     p \in PreFilterChoices, x \in ExtraPatternChoices}

\* config.integrationFolder of a legacy config.
IntegrationFolder == <<"cypress", "integration">>

\* A config of the current schema ('specPattern' in config) or of the legacy one.
ConfigObject(env, current) ==
  [kind |-> "object",
   env |-> env,
   hasSpecPattern |-> current,
   specPattern |-> IF current THEN Glob("cypress/**/*.js") ELSE Undefined,
   testFiles |-> IF current THEN Undefined ELSE Glob("**/*.js"),
   integrationFolder |-> IF current THEN Undefined ELSE Path(IntegrationFolder)]

Configs ==
  {Undefined} \cup {ConfigObject(e, c) : e \in Envs \cup {Undefined}, c \in BOOLEAN}

(***************************************************************************)
(* State of one invocation.                                                  *)
(***************************************************************************)
VARIABLES
  nargs,              \* arguments.length
  arg,                \* the config argument as it was passed in
  config,             \* the config object now (mutated in place)
  pc,                 \* where the invocation is
  result,             \* "pending", "config" (the argument is returned) or "throw"
  settings,           \* what getGrepSettings returned
  foundSpecs,         \* what getSpecs returned
  specFiles,          \* let specFiles
  mode,               \* the branch of lines 109 / 141 / 202 taken
  i,                  \* next index of specFiles the filter callback sees
  greppedSpecs,       \* let greppedSpecs
  foundTags,          \* const foundTags (tag mode)
  extraSpecs,         \* const extraSpecs (what resolveFilePatterns returned)
  resolvedExtraSpecs, \* const resolvedExtraSpecs
  calls,              \* the collaborator calls made so far
  warnings            \* console.warn diagnostics

vars == <<nargs, arg, config, pc, result, settings, foundSpecs, specFiles, mode, i,
          greppedSpecs, foundTags, extraSpecs, resolvedExtraSpecs, calls, warnings>>

NoSettings ==
  [grep |-> Undefined, grepTags |-> Undefined, grepFilterSpecs |-> FALSE, grepPrefixAt |-> Undefined]

Init ==
  /\ nargs \in {0, 1, 2}
  /\ arg \in Configs
  /\ nargs # 1 => arg \in {Undefined, ConfigObject(Undefined, TRUE)}
  /\ config = arg
  /\ pc = "call"
  /\ result = "pending"
  /\ settings = NoSettings
  /\ foundSpecs = <<>>
  /\ specFiles = <<>>
  /\ mode = "none"
  /\ i = 1
  /\ greppedSpecs = <<>>
  /\ foundTags = {}
  /\ extraSpecs = <<>>
  /\ resolvedExtraSpecs = <<>>
  /\ calls = <<>>
  /\ warnings = {}

(***************************************************************************)
(* plugin.js                                                                 *)
(***************************************************************************)
\* const isCypressV9 = (config) => !('specPattern' in config)
isCypressV9(c) == ~c.hasSpecPattern

\* Variant: the master switch tested for truthiness instead of === true.
getGrepSettingsTruthy(c) ==
  [grep |-> IF Truthy(c.env.grep) THEN c.env.grep ELSE Undefined,
   grepTags |-> OrElse(c.env.grepTags, c.env.grep_tags),
   grepFilterSpecs |-> Truthy(c.env.grepFilterSpecs),
   grepPrefixAt |-> OrElse(c.env.grepPrefixAt, c.env.grep_prefix_at)]

\* getGrepSettings(config), lines 17-65 (the console output left out).
getGrepSettings(c) ==
  [grep |-> IF Truthy(c.env.grep) THEN c.env.grep ELSE Undefined,
   grepTags |-> OrElse(c.env.grepTags, c.env.grep_tags),
   grepFilterSpecs |-> IsStrictlyTrue(c.env.grepFilterSpecs),
   grepPrefixAt |-> OrElse(c.env.grepPrefixAt, c.env.grep_prefix_at)]

\* Lines 72-90: the argument count, the missing config, the settings.
Invoke ==
  /\ pc = "call"
  /\ IF nargs # 1
       THEN /\ pc' = "done"
            /\ result' = "throw"
            /\ UNCHANGED settings
       ELSE IF config.kind = "undefined" \/ config.env.kind = "undefined"
         THEN /\ pc' = "done"
              /\ result' = "config"
              /\ UNCHANGED settings
         ELSE /\ settings' = getGrepSettings(config)
              /\ IF getGrepSettings(config).grepFilterSpecs
                   THEN pc' = "getSpecs" /\ UNCHANGED result
                   ELSE pc' = "done" /\ result' = "config"
  /\ UNCHANGED <<nargs, arg, config, foundSpecs, specFiles, mode, i, greppedSpecs,
                 foundTags, extraSpecs, resolvedExtraSpecs, calls, warnings>>

\* Lines 95-105: the pre-filter by --spec.
preFilter(found, env) ==
  LET specPattern == OrElse(env.grepSpec, env.grepSpecs)
  IN  IF Truthy(specPattern)
        THEN SelectSeq(found, LAMBDA specFilename : minimatch(specFilename, specPattern))
        ELSE found

\* Variant: the tag branch tested before the title branch.
chooseModeTagsFirst(s) ==
  IF Truthy(s.grepTags) THEN "tag"
  ELSE IF Truthy(s.grep) THEN "title"
  ELSE "untagged"

\* Lines 109, 141, 202: which filter runs.
chooseMode(s) ==
  IF Truthy(s.grep) THEN "title"
  ELSE IF Truthy(s.grepTags) THEN "tag"
  ELSE "untagged"

\* Lines 91-107 and the branch taken.
GetSpecs ==
  /\ pc = "getSpecs"
  /\ \E found \in CandidateLists :
       /\ foundSpecs' = found
       /\ specFiles' = preFilter(found, config.env)
  /\ calls' = Append(calls, <<"getSpecs">>)
  /\ mode' = chooseMode(settings)
  /\ greppedSpecs' = <<>>
  /\ i' = 1
  /\ pc' = "filter"
  /\ UNCHANGED <<nargs, arg, config, result, settings, foundTags, extraSpecs,
                 resolvedExtraSpecs, warnings>>

\* Variant: the catch block of title mode drops the file.
keepByTitleFailClosed(specFile, s) ==
  LET parsedGrep == parseGrep(s.grep, Undefined, s.grepPrefixAt)
      names == getTestNames(readFileSync(specFile))
  IN  IF names.threw
        THEN FALSE
        ELSE \E k \in 1..Len(names.fullTestNames) :
               shouldTestRun(parsedGrep, Str(names.fullTestNames[k]), {}, FALSE, {})

\* Lines 114-137: the filter callback of title mode.
keepByTitle(specFile, s) ==
  LET parsedGrep == parseGrep(s.grep, Undefined, s.grepPrefixAt)
      names == getTestNames(readFileSync(specFile))
  IN  IF names.threw
        THEN TRUE
        ELSE \E k \in 1..Len(names.fullTestNames) :
               shouldTestRun(parsedGrep, Str(names.fullTestNames[k]), {}, FALSE, {})

\* Variant: every() in place of some() in tag mode.
keepByTagsEvery(specFile, s) ==
  LET parsedGrep == parseGrep(Undefined, s.grepTags, s.grepPrefixAt)
      tags == findEffectiveTestTags(readFileSync(specFile))
  IN  IF tags.threw
        THEN TRUE
        ELSE \A k \in 1..Len(tags.testTags) :
               shouldTestRun(parsedGrep, Undefined, tags.testTags[k].effectiveTags, FALSE,
                             tags.testTags[k].requiredTags)

\* Lines 149-187: the filter callback of tag mode.
keepByTags(specFile, s) ==
  LET parsedGrep == parseGrep(Undefined, s.grepTags, s.grepPrefixAt)
      tags == findEffectiveTestTags(readFileSync(specFile))
  IN  IF tags.threw
        THEN TRUE
        ELSE \E k \in 1..Len(tags.testTags) :
               shouldTestRun(parsedGrep, Undefined, tags.testTags[k].effectiveTags, FALSE,
                             tags.testTags[k].requiredTags)

\* Lines 160-167: the tags the callback of tag mode remembers.
tagsFoundIn(specFile) ==
  LET tags == findEffectiveTestTags(readFileSync(specFile))
  IN  IF tags.threw
        THEN {}
        ELSE UNION {tags.testTags[k].effectiveTags \cup tags.testTags[k].requiredTags :
                      k \in 1..Len(tags.testTags)}

\* Variant: the tests counted are those without effective tags.
keepWithoutAnyTags(specFile) ==
  LET tags == findEffectiveTestTags(readFileSync(specFile))
      testsWithoutTags ==
        IF tags.threw THEN <<>>
        ELSE SelectSeq(tags.testTags, LAMBDA t : Cardinality(t.effectiveTags) = 0)
  IN  IF tags.threw THEN TRUE ELSE Len(testsWithoutTags) # 0

\* Lines 206-228: the filter callback when there is neither grep nor grepTags.
keepWithoutRequiredTags(specFile) ==
  LET tags == findEffectiveTestTags(readFileSync(specFile))
      testsWithoutRequiredTags ==
        IF tags.threw THEN <<>>
        ELSE SelectSeq(tags.testTags, LAMBDA t : Cardinality(t.requiredTags) = 0)
  IN  IF tags.threw THEN TRUE ELSE Len(testsWithoutRequiredTags) # 0

\* One call of the callback of specFiles.filter in title mode.
FilterTitle ==
  /\ pc = "filter" /\ mode = "title" /\ i <= Len(specFiles)
  /\ greppedSpecs' = IF keepByTitle(specFiles[i], settings)
                       THEN Append(greppedSpecs, specFiles[i]) ELSE greppedSpecs
  /\ calls' = calls \o <<<<"readFileSync", specFiles[i]>>, <<"getTestNames", specFiles[i]>>>>
  /\ i' = i + 1
  /\ UNCHANGED <<nargs, arg, config, pc, result, settings, foundSpecs, specFiles, mode,
                 foundTags, extraSpecs, resolvedExtraSpecs, warnings>>

\* One call of the callback of specFiles.filter in tag mode.
FilterTag ==
  /\ pc = "filter" /\ mode = "tag" /\ i <= Len(specFiles)
  /\ greppedSpecs' = IF keepByTags(specFiles[i], settings)
                       THEN Append(greppedSpecs, specFiles[i]) ELSE greppedSpecs
  /\ foundTags' = foundTags \cup tagsFoundIn(specFiles[i])
  /\ calls' = calls \o <<<<"readFileSync", specFiles[i]>>, <<"findEffectiveTestTags", specFiles[i]>>>>
  /\ i' = i + 1
  /\ UNCHANGED <<nargs, arg, config, pc, result, settings, foundSpecs, specFiles, mode,
                 extraSpecs, resolvedExtraSpecs, warnings>>

\* One call of the callback of specFiles.filter in untagged-elimination mode.
FilterUntagged ==
  /\ pc = "filter" /\ mode = "untagged" /\ i <= Len(specFiles)
  /\ greppedSpecs' = IF keepWithoutRequiredTags(specFiles[i])
                       THEN Append(greppedSpecs, specFiles[i]) ELSE greppedSpecs
  /\ calls' = calls \o <<<<"readFileSync", specFiles[i]>>, <<"findEffectiveTestTags", specFiles[i]>>>>
  /\ i' = i + 1
  /\ UNCHANGED <<nargs, arg, config, pc, result, settings, foundSpecs, specFiles, mode,
                 foundTags, extraSpecs, resolvedExtraSpecs, warnings>>

\* Lines 192-201: after the scan, tag mode warns about each mentioned tag it
\* found in no spec.
missingTagWarnings(s, found) ==
  {<<"could not find the tag", tag>> : tag \in getMentionedTags(s.grepTags, s.grepPrefixAt) \ found}

\* Variant: the extras are recorded but never pushed onto greppedSpecs.
addExtraSpecsNotAppended(grepped, resolved, extras) ==
  [greppedSpecs |-> grepped,
   resolvedExtraSpecs |-> resolved \o SelectSeq(extras, LAMBDA f : f \notin Range(grepped))]

\* Variant: includes() looks only at the list as it was before the loop.
addExtraSpecsNoDedup(grepped, resolved, extras) ==
  LET added == SelectSeq(extras, LAMBDA f : f \notin Range(grepped))
  IN  [greppedSpecs |-> grepped \o added, resolvedExtraSpecs |-> resolved \o added]

\* Lines 237-243: extraSpecs.forEach over (greppedSpecs, resolvedExtraSpecs).
RECURSIVE addExtraSpecs(_, _, _)
addExtraSpecs(grepped, resolved, extras) ==
  IF extras = <<>>
    THEN [greppedSpecs |-> grepped, resolvedExtraSpecs |-> resolved]
    ELSE IF Head(extras) \notin Range(grepped)
      THEN addExtraSpecs(Append(grepped, Head(extras)), Append(resolved, Head(extras)), Tail(extras))
      ELSE addExtraSpecs(grepped, resolved, Tail(extras))

\* The end of specFiles.filter, then lines 231-246: the extra specs.
MergeExtraSpecs ==
  /\ pc = "filter" /\ i > Len(specFiles)
  /\ warnings' = IF mode = "tag" THEN warnings \cup missingTagWarnings(settings, foundTags)
                                 ELSE warnings
  /\ IF Truthy(config.env.grepExtraSpecs)
       THEN \E resolved \in ExtraLists :
              LET merged == addExtraSpecs(greppedSpecs, <<>>, resolved)
              IN  /\ extraSpecs' = resolved
                  /\ greppedSpecs' = merged.greppedSpecs
                  /\ resolvedExtraSpecs' = merged.resolvedExtraSpecs
                  /\ config' = [config EXCEPT !.env.grepExtraSpecs = Array(merged.resolvedExtraSpecs)]
                  /\ calls' = Append(calls, <<"resolveFilePatterns">>)
       ELSE UNCHANGED <<extraSpecs, greppedSpecs, resolvedExtraSpecs, config, calls>>
  /\ pc' = "select"
  /\ UNCHANGED <<nargs, arg, result, settings, foundSpecs, specFiles, mode, i, foundTags>>

\* Variant: the relative names come out in reverse.
relativeNamesReversed(c, grepped) ==
  [k \in 1..Len(grepped) |->
     pathRelative(c.integrationFolder.segs, grepped[Len(grepped) + 1 - k])]

\* Lines 253-255.
relativeNames(c, grepped) ==
  [k \in 1..Len(grepped) |-> pathRelative(c.integrationFolder.segs, grepped[k])]

\* Variant: the selection is written without the test of its length.
setSelectionUnguarded(c, grepped) ==
  IF c.hasSpecPattern
    THEN [c EXCEPT !.specPattern = Array(grepped)]
    ELSE [c EXCEPT !.testFiles = Array([k \in 1..Len(grepped) |->
                                          pathRelative(c.integrationFolder.segs, grepped[k])])]

\* Variant: a non-empty selection is written to both fields.
setSelectionBothFields(c, grepped) ==
  IF Len(grepped) # 0
    THEN [c EXCEPT !.specPattern = Array(grepped), !.testFiles = Array(grepped)]
    ELSE c

\* Lines 248-275: what the config becomes.
setSelection(c, grepped) ==
  IF Len(grepped) # 0
    THEN IF isCypressV9(c)
           THEN [c EXCEPT !.testFiles = Array(relativeNames(c, grepped))]
           ELSE [c EXCEPT !.specPattern = Array(grepped)]
    ELSE c

\* Lines 248-278.
SetSelection ==
  /\ pc = "select"
  /\ config' = setSelection(config, greppedSpecs)
  /\ warnings' = IF Len(greppedSpecs) # 0 THEN warnings
                 ELSE warnings \cup {<<"grep and/or grepTags has eliminated all specs">>}
  /\ result' = "config"
  /\ pc' = "done"
  /\ UNCHANGED <<nargs, arg, settings, foundSpecs, specFiles, mode, i, greppedSpecs,
                 foundTags, extraSpecs, resolvedExtraSpecs, calls>>

Next ==
  \/ Invoke
  \/ GetSpecs
  \/ FilterTitle
  \/ FilterTag
  \/ FilterUntagged
  \/ MergeExtraSpecs
  \/ SetSelection

Spec == Init /\ [][Next]_vars

(***************************************************************************)
(* Vocabulary of the properties.                                             *)
(***************************************************************************)
Done == pc = "done"
\* The invocation went past the master switch and chose a filter.
Filtering == mode # "none"
\* The scan of specFiles is over (the merge of the extras has run).
ScanOver == Filtering /\ pc \in {"select", "done"}

\* The tag expression and the prefix flag of the call, under either spelling.
TagExpression == OrElse(arg.env.grepTags, arg.env.grep_tags)
PrefixFlag == OrElse(arg.env.grepPrefixAt, arg.env.grep_prefix_at)

\* The candidate files the filter kept: greppedSpecs without the appended extras.
Kept == SubSeq(greppedSpecs, 1, Len(greppedSpecs) - Len(resolvedExtraSpecs))

Parses(f) == readFileSync(f).parses
TestsOf(f) == readFileSync(f).tests

\* Some test of f satisfies the evaluator, called as title mode calls it.
SomeTitleMatches(f) ==
  \E k \in 1..Len(TestsOf(f)) :
    shouldTestRun(parseGrep(arg.env.grep, Undefined, PrefixFlag),
                  Str(TestsOf(f)[k].title), {}, FALSE, {})

\* Some test of f satisfies the evaluator, called as tag mode calls it.
SomeTagsMatch(f) ==
  \E k \in 1..Len(TestsOf(f)) :
    shouldTestRun(parseGrep(Undefined, TagExpression, PrefixFlag), Undefined,
                  TestsOf(f)[k].effectiveTags, FALSE, TestsOf(f)[k].requiredTags)

\* Some test of f has no required tag.
SomeTestUngated(f) ==
  \E k \in 1..Len(TestsOf(f)) : TestsOf(f)[k].requiredTags = {}

\* The decision the mode at hand prescribes for a file that parses.
Matches(f) ==
  CASE mode = "title" -> SomeTitleMatches(f)
    [] mode = "tag" -> SomeTagsMatch(f)
    [] OTHER -> SomeTestUngated(f)

\* The files the filter is to keep, in candidate order.
ExpectedKept == SelectSeq(specFiles, LAMBDA f : ~Parses(f) \/ Matches(f))

\* The first occurrences of s, in order.
RECURSIVE FirstOccurrences(_)
FirstOccurrences(s) ==
  IF s = <<>> THEN <<>>
  ELSE LET init == SubSeq(s, 1, Len(s) - 1)
           last == s[Len(s)]
       IN  IF last \in Range(init) THEN FirstOccurrences(init)
           ELSE Append(FirstOccurrences(init), last)

\* path.resolve(folder, name) on segments: ".." steps up.
RECURSIVE ResolveFrom(_, _)
ResolveFrom(folder, name) ==
  IF name = <<>> THEN folder
  ELSE IF Head(name) = ".." THEN ResolveFrom(SubSeq(folder, 1, Len(folder) - 1), Tail(name))
  ELSE ResolveFrom(Append(folder, Head(name)), Tail(name))

\* One of the host's two file-selection fields was written by the call.
SelectionWritten ==
  config.specPattern # arg.specPattern \/ config.testFiles # arg.testFiles

\* The files the host is to run after the call: the written list (legacy names
\* resolved against the integration folder), or every candidate when the
\* fields were left alone.
FinalSelection ==
  IF ~SelectionWritten THEN specFiles
  ELSE IF arg.hasSpecPattern THEN config.specPattern.items
  ELSE [k \in 1..Len(config.testFiles.items) |->
          ResolveFrom(arg.integrationFolder.segs, config.testFiles.items[k])]

EliminatedAllWarning == <<"grep and/or grepTags has eliminated all specs">>

(***************************************************************************)
(* Properties.                                                               *)
(***************************************************************************)

\* C1 as stated: with filtering enabled, a non-empty candidate set and a grep
\* or tag filter that keeps no candidate, the final selection is the full
\* candidate set.
C1_FallbackAsStated ==
  (Done /\ mode \in {"title", "tag"} /\ specFiles # <<>> /\ Kept = <<>>)
    => FinalSelection = specFiles

\* C1 amended: in that situation the selection fields are left alone (and the
\* diagnostic is emitted) unless the merge appended extra files; then the
\* selection is exactly the appended extras.
C1_FallbackUnlessExtras ==
  (Done /\ mode \in {"title", "tag"} /\ specFiles # <<>> /\ Kept = <<>>)
    => /\ result = "config"
       /\ IF resolvedExtraSpecs = <<>>
            THEN /\ ~SelectionWritten
                 /\ FinalSelection = specFiles
                 /\ EliminatedAllWarning \in warnings
            ELSE /\ SelectionWritten
                 /\ FinalSelection = resolvedExtraSpecs
                 /\ EliminatedAllWarning \notin warnings

C1_Witness ==
  /\ Done /\ mode = "tag" /\ Len(specFiles) = MaxSpecs /\ Kept = <<>>
  /\ resolvedExtraSpecs = <<>> /\ ~SelectionWritten
  /\ EliminatedAllWarning \in warnings

\* The situation of C2: candidates [A,B], tag mode keeps only A, the extra
\* pattern resolves to [B,C].
C2_Situation(A, B, C) ==
  /\ Done /\ mode = "tag"
  /\ C \notin {A, B}
  /\ specFiles = <<A, B>>
  /\ (~Parses(A) \/ SomeTagsMatch(A)) /\ ~(~Parses(B) \/ SomeTagsMatch(B))
  /\ extraSpecs = <<B, C>>

\* C2 as stated: the selection written is [A,B,C] and env.grepExtraSpecs
\* becomes [C] alone, B counting as already present.
C2_MergeAsStated ==
  \A A, B, C \in Files :
    C2_Situation(A, B, C)
      => /\ FinalSelection = <<A, B, C>>
         /\ config.env.grepExtraSpecs = Array(<<C>>)

\* C2 amended: the selection written is [A,B,C] and env.grepExtraSpecs becomes
\* [B,C]: the filter dropped B, so B is not in the selection when the extras
\* are merged and is appended (and reported) like C.
C2_ExtraSpecsMerge ==
  \A A, B, C \in Files :
    C2_Situation(A, B, C)
      => /\ FinalSelection = <<A, B, C>>
         /\ SelectionWritten
         /\ arg.hasSpecPattern => config.specPattern = Array(<<A, B, C>>)
         /\ config.env.grepExtraSpecs = Array(<<B, C>>)

C2_Witness ==
  /\ C2_Situation(login, checkout, empty)
  /\ TagExpression = Str(tagSmoke)
  /\ Kept = <<login>>
  /\ config.env.grepExtraSpecs = Array(<<checkout, empty>>)

\* The files of the extraction calls made so far, in call order.
ExtractionCalls ==
  LET made == SelectSeq(calls, LAMBDA c : c[1] \in {"getTestNames", "findEffectiveTestTags"})
  IN  [k \in 1..Len(made) |-> made[k][2]]

\* C3: in each mode a candidate whose extraction throws is kept, nothing is
\* thrown out of the entry point, every candidate is still scanned, and the
\* files that parse are decided as if the failing ones were not there.
C3_FailOpenPerFile ==
  /\ ScanOver =>
       /\ \A f \in Range(specFiles) : ~Parses(f) => f \in Range(Kept)
       /\ ExtractionCalls = specFiles
       /\ SelectSeq(Kept, Parses) = SelectSeq(SelectSeq(specFiles, Parses), Matches)
  /\ (Done /\ Filtering) => result = "config"

C3_Witness ==
  /\ Done /\ result = "config" /\ mode = "title"
  /\ specFiles = <<broken, checkout>> /\ Kept = <<broken>>

\* C4: the selection fields never hold an empty list; with an empty final
\* selection neither field is written, with a non-empty one exactly one is,
\* and it holds that selection.
C4_NeverEmptySelection ==
  /\ config.kind = "object" =>
       /\ config.specPattern # Array(<<>>)
       /\ config.testFiles # Array(<<>>)
  /\ (Done /\ Filtering) =>
       IF greppedSpecs = <<>>
         THEN config.specPattern = arg.specPattern /\ config.testFiles = arg.testFiles
         ELSE /\ (config.specPattern # arg.specPattern) # (config.testFiles # arg.testFiles)
              /\ FinalSelection = greppedSpecs

C4_Witness ==
  /\ Done /\ mode = "untagged" /\ specFiles = <<nightly, empty>>
  /\ greppedSpecs = <<>> /\ config = arg

\* C5: title grep > tag grep > neither.  With a non-empty env.grep the kept
\* files follow from the titles alone, whatever env.grepTags is; tag mode
\* runs only without grep and with grepTags; untagged-elimination only
\* without both.
C5_ModePriority ==
  Filtering =>
    /\ Truthy(arg.env.grep) =>
         /\ mode = "title"
         /\ \A k \in 1..Len(calls) : calls[k][1] # "findEffectiveTestTags"
         /\ ScanOver => Kept = SelectSeq(specFiles, LAMBDA f : ~Parses(f) \/ SomeTitleMatches(f))
    /\ mode = "tag" <=> (~Truthy(arg.env.grep) /\ Truthy(TagExpression))
    /\ mode = "untagged" <=> (~Truthy(arg.env.grep) /\ ~Truthy(TagExpression))
    /\ mode # "title" => \A k \in 1..Len(calls) : calls[k][1] # "getTestNames"

C5_Witness ==
  /\ Done /\ mode = "title" /\ Truthy(TagExpression)
  /\ specFiles = <<login, checkout>> /\ Kept = <<login>>
  /\ SomeTagsMatch(checkout) /\ ~SomeTagsMatch(login)

\* C6: in untagged-elimination mode a file that parses is kept iff one of its
\* tests has no required tag: a file whose tests are all gated is dropped,
\* and so is a file without tests; effective tags play no part.
C6_UntaggedElimination ==
  (ScanOver /\ mode = "untagged") =>
    /\ \A f \in Range(specFiles) : Parses(f) => (f \in Range(Kept) <=> SomeTestUngated(f))
    /\ nightly \notin Range(Kept)
    /\ empty \notin Range(Kept)
    /\ login \in Range(specFiles) => login \in Range(Kept)

C6_Witness ==
  /\ Done /\ mode = "untagged"
  /\ specFiles = <<nightly, mixed>> /\ Kept = <<mixed>>

\* C7: in title mode and in tag mode a file that parses is kept iff one of
\* its tests satisfies the evaluator; a file without tests is dropped.
\* [login (@smoke), checkout (@slow)] with grepTags "@smoke" gives [login].
C7_KeptIffSomeTestMatches ==
  (ScanOver /\ mode \in {"title", "tag"}) =>
    /\ \A f \in Range(specFiles) :
         Parses(f) => (f \in Range(Kept) <=>
                         IF mode = "title" THEN SomeTitleMatches(f) ELSE SomeTagsMatch(f))
    /\ empty \notin Range(Kept)
    /\ (mode = "tag" /\ TagExpression = Str(tagSmoke) /\ ~Truthy(PrefixFlag)
          /\ specFiles = <<login, checkout>>) => Kept = <<login>>

C7_Witness ==
  /\ Done /\ mode = "tag" /\ TagExpression = Str(tagSmoke)
  /\ specFiles = <<login, checkout>> /\ Kept = <<login>> /\ resolvedExtraSpecs = <<>>
  /\ FinalSelection = <<login>>

IsPrefix(a, b) == Len(a) <= Len(b) /\ SubSeq(b, 1, Len(a)) = a

\* C8: the list written is the kept candidates in the order getSpecs gave
\* them, then the appended extras in the order resolveFilePatterns gave them:
\* as it is in config.specPattern (current schema), element by element
\* relative to config.integrationFolder in config.testFiles (legacy schema).
C8_OrderPreserved ==
  (Done /\ Filtering /\ greppedSpecs # <<>>) =>
    LET kept == SelectSeq(foundSpecs, LAMBDA f : f \in Range(Kept))
        added == FirstOccurrences(SelectSeq(extraSpecs, LAMBDA f : f \notin Range(Kept)))
        selection == kept \o added
    IN  IF arg.hasSpecPattern
          THEN config.specPattern = Array(selection)
          ELSE /\ config.testFiles.kind = "array"
               /\ Len(config.testFiles.items) = Len(selection)
               /\ \A k \in 1..Len(selection) :
                    LET name == config.testFiles.items[k]
                    IN  /\ ResolveFrom(arg.integrationFolder.segs, name) = selection[k]
                        /\ IsPrefix(arg.integrationFolder.segs, selection[k])
                             => name = SubSeq(selection[k], Len(arg.integrationFolder.segs) + 1,
                                              Len(selection[k]))

C8_Witness ==
  /\ Done /\ Filtering /\ ~arg.hasSpecPattern
  /\ foundSpecs = <<checkout, login>>
  /\ extraSpecs = <<empty, checkout>>
  /\ config.testFiles = Array(<< <<"shop", "checkout.js">>, <<"login.js">>,
                                 <<"..", "extra", "empty.js">> >>)

\* C9: called with one argument, unless env.grepFilterSpecs is the boolean
\* true (and config and config.env are there) the call returns the config it
\* was given, unchanged, and calls none of getSpecs, the extractors or
\* resolveFilePatterns, whatever grep, grepTags and grepExtraSpecs are.
C9_MasterSwitch ==
  (Done /\ nargs = 1
     /\ (\/ arg.kind = "undefined"
         \/ arg.env.kind = "undefined"
         \/ arg.env.grepFilterSpecs # Bool(TRUE)))
    => /\ result = "config"
       /\ config = arg
       /\ calls = <<>>
       /\ ~Filtering

C9_Witness ==
  /\ Done /\ nargs = 1 /\ arg.kind = "object" /\ arg.env.kind = "object"
  /\ arg.env.grepFilterSpecs = Str(<<"t", "r", "u", "e">>)
  /\ Truthy(arg.env.grep) /\ Truthy(arg.env.grepTags) /\ Truthy(arg.env.grepExtraSpecs)
  /\ result = "config" /\ config = arg

\* C10: with an extra pattern, after the merge no path is twice in the
\* selection, env.grepExtraSpecs holds exactly the resolved files the filter
\* had not kept, each once, in resolver order, and the selection is the kept
\* files followed by env.grepExtraSpecs, the two parts disjoint.
C10_MergeDeduplicates ==
  (ScanOver /\ Truthy(arg.env.grepExtraSpecs)) =>
    /\ NoDuplicates(greppedSpecs)
    /\ config.env.grepExtraSpecs =
         Array(FirstOccurrences(SelectSeq(extraSpecs, LAMBDA f : f \notin Range(ExpectedKept))))
    /\ greppedSpecs = ExpectedKept \o config.env.grepExtraSpecs.items
    /\ Range(ExpectedKept) \cap Range(config.env.grepExtraSpecs.items) = {}

C10_Witness ==
  /\ Done /\ Filtering /\ Truthy(arg.env.grepExtraSpecs)
  /\ Kept = <<checkout>>
  /\ extraSpecs = <<empty, empty>>
  /\ greppedSpecs = <<checkout, empty>>
  /\ config.env.grepExtraSpecs = Array(<<empty>>)

====
